---------------------------- MODULE Spec2Model ----------------------------
(***************************************************************************)
(* A model of GitKnowledgeRepository                                       *)
(* (src/knowledge_repo/repositories/gitrepository.py): knowledge posts     *)
(* stored as directories of a git working tree, one branch per draft, the  *)
(* status of a post derived from the branch topology.                      *)
(*                                                                         *)
(* A path or a branch name is a sequence of its '/'-separated components;  *)
(* None is the empty sequence.  A commit's tree, the index and the working *)
(* tree record, per document directory, whether the directory exists and   *)
(* what its REVISION file holds.                                           *)
(***************************************************************************)
EXTENDS Integers, Sequences, FiniteSets, TLC

\* ------------------------------------------------------------------ bounds
\* No commit is made once the object store holds this many commits.
MaxCommits == 2
\* The largest revision number next_revision is followed to.
MaxRev == 2

\* ------------------------------------------------------------------- names
None == << >>
Master == <<"master">>
Feature == <<"feature">>
DocA == <<"2020", "report.kp">>
Docs == {DocA}
Wip == <<"wip">>
BranchNames == {Master, Feature, Wip} \cup Docs
\* `git branch` lists branches sorted by name:
\* 2020/report.kp < feature < master < wip
BranchOrder == <<DocA, Feature, Master, Wip>>
\* the path components s for which s.endswith('.kp') is true
KpComponents == {"report.kp", "b.kp"}

\* What a tree holds of a document directory: no directory ("absent"), a
\* directory without a REVISION file ("norev"), or the text of the file.
Digits == <<"0", "1", "2", "3", "4", "5", "6", "7", "8", "9">>
Junk == "x"
Contents == {"absent", "norev", Junk} \cup {Digits[n + 1] : n \in 0..MaxRev}

VARIABLES commits, branches, active_branch, index, worktree,
          remote_uri, remote_refs, dir_cache, adding, last, disk, walk

vars == <<commits, branches, active_branch, index, worktree,
          remote_uri, remote_refs, dir_cache, adding, last, disk, walk>>

\* --------------------------------------------------------- python helpers
\* str(n) of a small non-negative integer
Str(n) == Digits[n + 1]

IsInt(s) == \E n \in 0..9 : Digits[n + 1] = s

\* int(s) of a decimal text (the caller checks IsInt: otherwise ValueError)
ParseInt(s) == CHOOSE n \in 0..9 : Digits[n + 1] = s

\* str.endswith('.kp') of a '/'-joined name: decided by its last component
EndsWithKp(name) == name # None /\ name[Len(name)] \in KpComponents

Max(S) == CHOOSE x \in S : \A y \in S : y <= x


\* ------------------------------------------------------------ commit graph
\* commits[c] = [parents |-> set of commit ids, tree |-> [Docs -> Contents]]
TreeIn(cs, c) == cs[c].tree

Tree(c) == TreeIn(commits, c)

RECURSIVE Ancestors(_)
\* the commits reachable from c, c included
Ancestors(c) == {c} \cup UNION {Ancestors(p) : p \in commits[c].parents}

\* self.git.iter_commits('a..b'): reachable from b and not from a
IterCommits(a, b) == Ancestors(b) \ Ancestors(a)

\* self.git.merge_base(a, b)[0]: a best common ancestor
MergeBase(a, b) ==
    LET common == Ancestors(a) \cap Ancestors(b)
        best == {c \in common : \A d \in common \ {c} : c \notin Ancestors(d)}
    IN  Max(best)

\* self.git.commit(ref): ref None is HEAD, otherwise a local branch name
Commit(ref) == IF ref = None THEN branches[active_branch] ELSE branches[ref]

\* the files of document d in a tree holding content c of it, with their data
FilesOf(d, c) ==
    IF c = "absent" THEN {}
    ELSE {<<d \o <<"knowledge.md">>, "md">>}
         \cup (IF c = "norev" THEN {} ELSE {<<d \o <<"REVISION">>, c>>})

Files(tree) == UNION {FilesOf(d, tree[d]) : d \in Docs}

\* commit.diff(other): the a_path of every file that differs
DiffPaths(t1, t2) ==
    {f[1] : f \in (Files(t1) \ Files(t2)) \cup (Files(t2) \ Files(t1))}

\* git_diff(ref): the diff of ref's commit against its merge base with master
GitDiff(ref) ==
    LET commit == Commit(ref)
        base == MergeBase(Commit(Master), commit)
    IN  DiffPaths(Tree(commit), Tree(base))

\* [b.name for b in self.git.branches]
Branches == {b \in BranchNames : branches[b] # 0}

\* git_branch(branch) of a name: the branch, when it exists (else ValueError)
BranchExists(b) == b \in Branches

\* git_local_branches: `git branch --no-merged master`, in listing order.
\* (With nothing unmerged the code's list is [''], whose only entry resolves
\* to HEAD, a branch merged into master: its diff is empty.)
NoMerged(b) == b \in Branches /\ branches[b] \notin Ancestors(branches[Master])

GitLocalBranches == SelectSeq(BranchOrder, NoMerged)

\* __get_path_from_ref: the path up to its first component ending in '.kp'
GetPathFromRef(ref) ==
    LET kp == {i \in 1..Len(ref) : ref[i] \in KpComponents}
    IN  IF kp = {} THEN None
        ELSE SubSeq(ref, 1, CHOOSE i \in kp : \A j \in kp : i <= j)

\* git_local_posts(branches=[branch]): the posts branch's diff touches
GitLocalPosts(branch) == {GetPathFromRef(p) : p \in GitDiff(branch)} \ {None}

\* ------------------------------------------------------------- tree walker
Prefixes(p) == {SubSeq(p, 1, k) : k \in 1..Len(p)}

\* the entries (trees and blobs) of a commit's tree, by full path
TreeEntries(tree) ==
    UNION {Prefixes(f[1]) : f \in Files(tree)}

\* the entries directly in the tree at path p
Children(entries, p) ==
    {e \in entries : Len(e) = Len(p) + 1 /\ SubSeq(e, 1, Len(p)) = p}

\* os.path.dirname(path)
Dirname(p) == SubSeq(p, 1, Len(p) - 1)

\* a prune that stops at submodules only
PruneSubmodules(p, submodules) == p \in submodules

\* the prune of line 120: the item is a submodule or lies directly in a
\* directory whose name ends in '.kp'
Prune(p, submodules) == p \in submodules \/ EndsWithKp(Dirname(p))

RECURSIVE Traverse(_, _, _)
\* the traversal from item on: a pruned item is left out with all below it,
\* the predicate of line 122 keeps the items whose path ends in '.kp', and
\* the traversal goes on into the item's entries
Traverse(entries, submodules, item) ==
    IF Prune(item, submodules) THEN {}
    ELSE (IF EndsWithKp(item) THEN {item} ELSE {})
         \cup UNION {Traverse(entries, submodules, c) : c \in Children(entries, item)}

\* tree.traverse(prune, visit_once=False, predicate) from tree[prefix]: the
\* prune is applied to the tree traversed too, which itself is not yielded
GitDirOf(entries, submodules, prefix) ==
    IF Prune(prefix, submodules) THEN {}
    ELSE UNION {Traverse(entries, submodules, c) : c \in Children(entries, prefix)}

\* what is known of a listing of a tree: its entries by full path, those of
\* them that are submodules, the prefix listed and the paths yielded
NoWalk == [entries |-> {}, submodules |-> {}, prefix |-> None, out |-> {}, exc |-> "none"]

\* git_dir(prefix, commit)
GitDir(prefix, commit) == GitDirOf(TreeEntries(Tree(Commit(commit))), {}, prefix)

\* KnowledgeRepository.dir(): the published posts, _dir(None, [PUBLISHED])
Dir == GitDir(None, Master)

\* ---------------------------------------------------------- branch resolver
InSeq(x, s) == \E i \in 1..Len(s) : s[i] = x

\* lines 166-169: the unmerged branches whose diff holds the post, in the
\* order of the listing
Matching(path) ==
    LET Touches(b) == path \in GitLocalPosts(b)
    IN  SelectSeq(GitLocalBranches, Touches)

\* the resolver taking the last of the branches found
GitBranchForPostLast(path, response) ==
    IF path = None THEN None
    ELSE IF InSeq(path, GitLocalBranches) THEN path
    ELSE IF Len(Matching(path)) = 0
         THEN IF path \in Dir THEN Master ELSE None
         ELSE Matching(path)[Len(Matching(path))]

\* git_branch_for_post(path, interactive): the name of the Head returned, or
\* None; response is the index chosen (0 when not interactive)
GitBranchForPost(path, response) ==
    IF path = None THEN None
    ELSE IF InSeq(path, GitLocalBranches) THEN path
    ELSE LET Touches(b) == path \in GitLocalPosts(b)
             found == SelectSeq(GitLocalBranches, Touches)
         IN  IF Len(found) = 0
             THEN IF path \in Dir THEN Master ELSE None
             ELSE IF Len(found) = 1 THEN found[1]
             ELSE found[response + 1]


\* ------------------------------------------------------------------ remote
\* The remote's url as the tokens the host pattern '.*?@(.*?):' reads
SshUri == <<"git", "@", "git.example.com", ":", "team/repo.git">>
HttpsUri == <<"https://git.example.com/team/repo.git">>

\* len(self.git.remotes) == 0
NoRemotes == remote_uri = None

\* __remote_host: the text between the first '@' and the next ':' of the
\* uri, None when the uri has no such form
RemoteHost ==
    IF remote_uri = None THEN None
    ELSE LET ats == {i \in 1..Len(remote_uri) : remote_uri[i] = "@"}
             at == IF ats = {} THEN 0 ELSE CHOOSE i \in ats : \A j \in ats : i <= j
             colons == {i \in 1..Len(remote_uri) : i > at /\ remote_uri[i] = ":"}
         IN  IF at = 0 \/ colons = {} THEN None
             ELSE SubSeq(remote_uri, at + 1,
                         (CHOOSE i \in colons : \A j \in colons : i <= j) - 1)

\* __remote_available, probe being whether the connect to port 22 succeeds
RemoteAvailable(probe) == IF RemoteHost # None THEN probe ELSE TRUE

\* the property __remote_available read without a check of self.git.remotes:
\* with no remote self.git.remote() in __remote_uri raises ValueError, which
\* the handler of GitCommandError of line 425 does not take
ReadRemoteAvailable(probe) ==
    IF NoRemotes THEN [exc |-> "ValueError", ret |-> "none"]
    ELSE [exc |-> "none", ret |-> IF RemoteAvailable(probe) THEN "True" ELSE "False"]

\* the name of the remote-tracking ref of branch b: 'origin/' + b
RemoteRefName(b) == <<"origin">> \o b

\* [ref.name for ref in self.git.remote().refs]
RemoteRefNames == {RemoteRefName(b) : b \in {x \in BranchNames : remote_refs[x] # 0}}

\* `name in self.git.remote().refs`: the list looks the name up with its
\* prefix 'origin/' put in front
InRemoteRefs(name) == RemoteRefName(name) \in RemoteRefNames

\* ----------------------------------------------------------- what a call did
\* op: the call made last; path, branch: the post and the branch a status
\* or submit call was given; force: the flag a submit was given and probe
\* what its reachability probe found; exc: the exception that left the call
\* ("none": it returned); ret, detail: what it returned; pushes: the pushes
\* it made
NoLast ==
    [op |-> "init", path |-> None, branch |-> None, force |-> FALSE,
     probe |-> FALSE, exc |-> "none", ret |-> "none", detail |-> None,
     pushes |-> << >>, posts |-> << >>, prefix |-> None]

Call(op) == [NoLast EXCEPT !.op = op]

Raised(call, exc) == [call EXCEPT !.exc = exc]

Returned(call, ret, detail) == [call EXCEPT !.ret = ret, !.detail = detail]

\* ------------------------------------------------------------------- Init
InitTrees == {[d \in Docs |-> "absent"], [d \in Docs |-> "1"]}

Init ==
    /\ \E t \in InitTrees :
        /\ commits = <<[parents |-> {}, tree |-> t]>>
        /\ index = t
        /\ worktree = t
    /\ branches = [b \in BranchNames |-> IF b = Master THEN 1 ELSE 0]
    /\ active_branch = Master
    /\ remote_uri \in {None, SshUri, HttpsUri}
    /\ remote_refs = [b \in BranchNames |-> IF b = Master /\ remote_uri # None THEN 1 ELSE 0]
    /\ dir_cache = [set |-> FALSE, paths |-> {}]
    /\ adding = None
    /\ last = NoLast
    /\ disk = "repo"
    /\ walk = NoWalk

\* ------------------------------------------------------------ status engine
\* the text of a part of the annotation, as its pieces
Behind(n) == IF n # 0 THEN <<" - ", Str(n), " commits behind">> ELSE << >>

Ahead(n) == IF n # 0 THEN <<" - ", Str(n), " commits ahead">> ELSE << >>

OnBranch(name) == <<" [On branch: ">> \o name \o <<"]">>

\* `branch != path` of a Head and a str: SymbolicReference.__eq__ is False for
\* an operand that has no `path` attribute, whatever the names are
HeadNotEqual(branch, path) == TRUE

\* the annotation of a SUBMITTED post, lines 359-366
Annotation(branch, path) ==
    LET behind == Cardinality(IterCommits(branches[branch], remote_refs[branch]))
        ahead == Cardinality(IterCommits(remote_refs[branch], branches[branch]))
    IN  Behind(behind) \o Ahead(ahead)
        \o (IF HeadNotEqual(branch, path) THEN OnBranch(branch) ELSE << >>)

\* the None of a (status, None) pair
NoDetail == <<"None">>

\* _kp_status(path, detailed=detailed, branch=branch) with self._dir_cache
\* holding cache: ret "PUBLISHED" | "SUBMITTED" | "DRAFT" is the status
\* returned, ret "ValueError" the exception object returned as a value;
\* detail is the second member of the pair when a pair is returned
KpStatusResult(path, detailed, branch, cache) ==
    LET call == [Call("status") EXCEPT !.path = path, !.branch = branch]
        pair(st, ann) == Returned(call, st, IF detailed THEN ann ELSE None)
    IN  IF path \in cache THEN Returned(call, "PUBLISHED", None)
        ELSE IF branch # None /\ ~BranchExists(branch) THEN Raised(call, "ValueError")
        ELSE LET b == IF branch = None THEN GitBranchForPost(path, 0) ELSE branch
             IN  IF b = None THEN Returned(call, "ValueError", None)
                 ELSE IF b = Master THEN pair("PUBLISHED", NoDetail)
                 ELSE IF NoRemotes THEN Raised(call, "ValueError")
                 ELSE IF InRemoteRefs(b) THEN pair("SUBMITTED", Annotation(b, path))
                 ELSE pair("DRAFT", NoDetail)

\* self._dir_cache after the hasattr test of line 344
DirCache == IF dir_cache.set THEN dir_cache.paths ELSE Dir

KpStatus(path, detailed, branch) ==
    /\ dir_cache' = [set |-> TRUE, paths |-> DirCache]
    /\ last' = KpStatusResult(path, detailed, branch, DirCache)
    /\ UNCHANGED <<commits, branches, active_branch, index, worktree,
                   remote_uri, remote_refs>>

\* ----------------------------------------------------------------- listing
PostStatus == {"PUBLISHED", "DRAFT", "SUBMITTED"}

\* git_local_posts(as_dict=True): the (branch, post) pairs of the unmerged
\* branches and the posts their diffs hold
LocalPosts ==
    {v \in BranchNames \X Docs : NoMerged(v[1]) /\ v[2] \in GitLocalPosts(v[1])}

\* tree[prefix] of git_dir on master: KeyError for a path the tree lacks
TreeAtFails(prefix) ==
    IF prefix = None \/ prefix \in TreeEntries(Tree(Commit(Master))) THEN "none"
    ELSE "KeyError"

\* sorted(posts)
DocOrder == <<DocA>>

Sorted(posts) ==
    LET In(d) == d \in posts
    IN  SelectSeq(DocOrder, In)

RECURSIVE DirFrom(_, _, _, _, _, _)
\* the loop of lines 256-265 from the i-th status on: prefix is the value of
\* the variable prefix, which the inner loop of line 261 assigns every post it
\* visits to (lastPost is the last of them); cache is self._dir_cache as
\* _kp_status finds or fills it; acc holds the posts collected and whether
\* _kp_status was called
DirFrom(statuses, i, prefix, lastPost, cache, acc) ==
    IF i > Len(statuses) THEN [exc |-> "none"] @@ acc
    ELSE IF statuses[i] = "PUBLISHED"
    THEN IF TreeAtFails(prefix) # "none"
         THEN [exc |-> TreeAtFails(prefix)] @@ [acc EXCEPT !.prefix = prefix]
         ELSE DirFrom(statuses, i + 1, prefix, lastPost, cache,
                      [acc EXCEPT !.posts = @ \cup GitDir(prefix, Master),
                                  !.prefix = prefix])
    ELSE LET Status(v) == KpStatusResult(v[2], FALSE, v[1], cache)
             called == [acc EXCEPT !.cached = @ \/ LocalPosts # {}]
         IN  IF \E v \in LocalPosts : Status(v).exc # "none"
             THEN [exc |-> "ValueError"] @@ called
             ELSE DirFrom(statuses, i + 1,
                          IF LocalPosts = {} THEN prefix ELSE lastPost,
                          lastPost, cache,
                          [called EXCEPT !.posts = @ \cup
                              {v[2] : v \in {x \in LocalPosts :
                                    \E j \in 1..Len(statuses) : Status(x).ret = statuses[j]}}])

\* _dir(prefix, statuses), iterated to its end
ListDir(prefix, statuses, lastPost) ==
    LET r == DirFrom(statuses, 1, prefix, lastPost, DirCache,
                     [posts |-> {}, cached |-> FALSE, prefix |-> None])
    IN  /\ last' = [Call("dir") EXCEPT
                       !.path = prefix, !.detail = statuses, !.exc = r.exc,
                       !.posts = IF r.exc = "none" THEN Sorted(r.posts) ELSE << >>,
                       !.prefix = r.prefix]
        /\ dir_cache' = IF r.cached THEN [set |-> TRUE, paths |-> DirCache] ELSE dir_cache
        /\ UNCHANGED <<commits, branches, active_branch, index, worktree,
                       remote_uri, remote_refs>>

\* ---------------------------------------------------------------- ref store
\* _kp_read_ref(path, 'REVISION') raises IOError: no such file or directory
NoRevisionFile(path) == worktree[path] \in {"absent", "norev"}

\* _kp_get_revision(path), where int() accepts the text read
KpGetRevision(path) ==
    IF NoRevisionFile(path) THEN 0 ELSE ParseInt(worktree[path])

\* int() raises ValueError, which _kp_get_revision does not catch
RevisionUnreadable(path) == ~NoRevisionFile(path) /\ ~IsInt(worktree[path])

\* _kp_write_ref(path, reference, data) on the working tree
WriteRef(path, reference, data) ==
    IF reference = "REVISION" THEN [worktree EXCEPT ![path] = data]
    ELSE IF worktree[path] = "absent" THEN [worktree EXCEPT ![path] = "norev"]
    ELSE worktree

\* the data the model writes to a REVISION file from outside the counter
WriteData == {Junk}

KpWriteRef(path, reference, data) ==
    /\ worktree' = WriteRef(path, reference, data)
    /\ last' = Call("write_ref")
    /\ UNCHANGED <<commits, branches, active_branch, index,
                   remote_uri, remote_refs, dir_cache>>

\* a counter that steps the wrong way: - 1 written for + 1 (a file that
\* holds 0 kept at 0)
NewRevisionDecrements(path) ==
    Str(IF KpGetRevision(path) = 0 THEN 0 ELSE KpGetRevision(path) - 1)

\* a counter that does not step: the + 1 left out
NewRevisionStuck(path) == Str(KpGetRevision(path))

\* what _kp_new_revision(path) writes
NewRevision(path) == Str(KpGetRevision(path) + 1)

KpNewRevision(path) ==
    /\ IF RevisionUnreadable(path)
       THEN /\ last' = Raised(Call("next_revision"), "ValueError")
            /\ UNCHANGED worktree
       ELSE /\ KpGetRevision(path) < MaxRev
            /\ worktree' = WriteRef(path, "REVISION", NewRevision(path))
            /\ last' = Call("next_revision")
    /\ UNCHANGED <<commits, branches, active_branch, index,
                   remote_uri, remote_refs, dir_cache>>


\* ------------------------------------------------------------ git checkout
\* `git checkout <branch>` from a HEAD holding tree from to a branch holding
\* tree to: it refuses when a document that differs between the two has
\* staged or unstaged changes (or is untracked and would be overwritten) ...
CheckoutConflict(from, to, idx, wt) ==
    \E d \in Docs : from[d] # to[d] /\ (idx[d] # from[d] \/ wt[d] # from[d])

\* ... and otherwise rewrites the documents that differ, keeping local changes
CheckoutTree(from, to, cur) ==
    [d \in Docs |-> IF from[d] # to[d] THEN to[d] ELSE cur[d]]

\* line 216: a soft checkout asks whether to stay on the branch checked out
Prompted(branch) ==
    active_branch \notin {Master, branch} /\ ~EndsWithKp(active_branch)

\* lines 216-222: the branch used after the prompt of a soft checkout
SoftBranch(branch, response) ==
    IF Prompted(branch) /\ response = "y" THEN active_branch ELSE branch

\* the answers a soft checkout can read: "n" stands for no answer read
Responses(branch) == IF Prompted(branch) THEN {"y", "n"} ELSE {"n"}

\* a branch always started from the local master
RefHeadLocal(branch) == branches[Master]

\* lines 225-236: the commit a created or reset branch starts from
RefHead(branch) ==
    IF ~NoRemotes /\ (\E r \in RemoteRefNames : r = branch)
    THEN remote_refs[CHOOSE b \in BranchNames : remote_refs[b] # 0 /\ RemoteRefName(b) = branch]
    ELSE IF ~NoRemotes THEN remote_refs[Master]
    ELSE branches[Master]

\* git_checkout(branch, soft=True, reset=reset, create=True): the branches, and
\* HEAD, index and working tree after branch.checkout(); ok is whether that
\* checkout succeeded (else GitCommandError leaves git_checkout)
GitCheckout(branch, reset, response) ==
    LET b == SoftBranch(branch, response)
        heads == IF reset \/ b \notin Branches
                 THEN [branches EXCEPT ![b] = RefHead(b)]
                 ELSE branches
        from == Tree(heads[active_branch])
        to == Tree(heads[b])
        conflict == CheckoutConflict(from, to, index, worktree)
    IN  [branches |-> heads,
         ok |-> ~conflict,
         active |-> IF conflict THEN active_branch ELSE b,
         index |-> IF conflict THEN index ELSE CheckoutTree(from, to, index),
         worktree |-> IF conflict THEN worktree ELSE CheckoutTree(from, to, worktree)]

\* ------------------------------------------------------------ add workflow
\* the branches a post is added on, when not the one named after it: posts
\* are drafted off master
AddBranches == {Feature}

\* _add_prepare(kp, path, update, branch, squash)
AddPrepare(path, update, branch, squash, response) ==
    LET call == [Call("prepare") EXCEPT
                     !.path = path, !.force = squash,
                     !.branch = SoftBranch(IF branch = None THEN path ELSE branch, response)]
        co == GitCheckout(IF branch = None THEN path ELSE branch, squash, response)
    IN  /\ branches' = co.branches
        /\ active_branch' = co.active
        /\ index' = co.index
        /\ worktree' = co.worktree
        /\ last' = IF ~co.ok THEN Raised(call, "GitCommandError")
                   ELSE IF ~(update \/ co.worktree[path] = "absent")
                        THEN Raised(call, "AssertionError")
                        ELSE call
        /\ UNCHANGED <<commits, remote_uri, remote_refs, dir_cache>>

\* a clean that removes nothing: the -d flag left out, the untracked
\* directory of the post is kept
CleanKeeps(idx, wt, path) == wt

\* `git clean -df path`: removes what the index does not track under path
Clean(idx, wt, path) ==
    [wt EXCEPT ![path] =
        IF idx[path] = "absent" THEN "absent"
        ELSE IF idx[path] = "norev" /\ wt[path] # "absent" THEN "norev"
        ELSE wt[path]]

\* `git checkout -- path` fails when the index knows no file under path
CheckoutPathFails(idx, path) == idx[path] = "absent"

\* `git checkout -- path`: restores the tracked files of path from the index
CheckoutPath(idx, wt, path) ==
    [wt EXCEPT ![path] =
        IF idx[path] = "norev"
        THEN (IF wt[path] = "absent" THEN "norev" ELSE wt[path])
        ELSE idx[path]]

\* lines 293-304: the rollback after a failed commit.  staged is the index
\* after index.add, original the exception caught, fails the rollback
\* command that fails of itself ("none", "reset", "clean" or "checkout")
Rollback(staged, path, original, fails) ==
    IF fails = "reset"
    THEN [index |-> staged, worktree |-> worktree, exc |-> "reset:GitCommandError"]
    ELSE LET head == Tree(branches[active_branch])
             cleaned == IF fails = "clean" THEN worktree
                        ELSE Clean(head, worktree, path)
             restored == IF fails \in {"clean", "checkout"} \/ CheckoutPathFails(head, path)
                         THEN cleaned
                         ELSE CheckoutPath(head, cleaned, path)
         IN  [index |-> head, worktree |-> restored, exc |-> original]

\* the exception a failing commit step raises
CommitFailure(outcome) ==
    IF outcome = "interrupted" THEN "KeyboardInterrupt" ELSE "commit:GitCommandError"

\* _add_cleanup(kp, path, message): outcome is "committed", "commit_error"
\* (index.commit raises) or "interrupted" (message None, raw_input interrupted)
AddCleanup(path, outcome, fails) ==
    LET call == Call("finalize")
        staged == [index EXCEPT ![path] = worktree[path]]
    IN  IF worktree[path] = "absent"
        THEN \* index.add([path]) raises: no such file
             /\ last' = Raised(call, "add:OSError")
             /\ UNCHANGED <<commits, branches, active_branch, index, worktree,
                            remote_uri, remote_refs, dir_cache>>
        ELSE IF outcome = "committed"
        THEN /\ Len(commits) < MaxCommits
             /\ commits' = Append(commits, [parents |-> {branches[active_branch]},
                                            tree |-> staged])
             /\ branches' = [branches EXCEPT ![active_branch] = Len(commits) + 1]
             /\ index' = staged
             /\ last' = call
             /\ UNCHANGED <<active_branch, worktree, remote_uri, remote_refs, dir_cache>>
        ELSE LET rb == Rollback(staged, path, CommitFailure(outcome), fails)
             IN  /\ index' = rb.index
                 /\ worktree' = rb.worktree
                 /\ last' = Raised(call, rb.exc)
                 /\ UNCHANGED <<commits, branches, active_branch,
                                remote_uri, remote_refs, dir_cache>>

\* ------------------------------------------------------------------ submit
\* self.git.remote().push(branch, force): the remote takes the branch when it
\* exists and the push is forced or a fast-forward of what the remote had
PushTakes(branch, force) ==
    /\ branch \in Branches
    /\ \/ force
       \/ remote_refs[branch] = 0
       \/ remote_refs[branch] \in Ancestors(branches[branch])

\* a submit that never finds the remote unreachable: the probe read as a
\* method, which is always true, and not as a property
SubmitUnprobed(path, branch, force, probe) ==
    LET call == [Call("submit") EXCEPT !.path = path, !.branch = branch,
                                       !.force = force, !.probe = probe]
        resolved == IF branch = None THEN GitBranchForPost(path, 0) ELSE branch
    IN  /\ IF NoRemotes
           THEN last' = Raised(call, "RuntimeError:no-remote") /\ UNCHANGED remote_refs
           ELSE IF branch = None /\ path = None
           THEN last' = Raised(call, "ValueError:no-target") /\ UNCHANGED remote_refs
           ELSE IF resolved = None
           THEN last' = Raised(call, "ValueError:no-draft") /\ UNCHANGED remote_refs
           ELSE /\ last' = [call EXCEPT !.pushes = <<[branch |-> resolved, force |-> force]>>]
                /\ remote_refs' = IF PushTakes(resolved, force)
                                  THEN [remote_refs EXCEPT ![resolved] = branches[resolved]]
                                  ELSE remote_refs
        /\ UNCHANGED <<commits, branches, active_branch, index, worktree,
                       remote_uri, dir_cache>>

\* a submit that gets its branch with git_checkout(branch, create=True), and
\* so creates it when it is missing and checks it out, before it pushes
SubmitChecksOut(path, branch, force, probe) ==
    LET call == [Call("submit") EXCEPT !.path = path, !.branch = branch,
                                       !.force = force, !.probe = probe]
        resolved == IF branch = None THEN GitBranchForPost(path, 0) ELSE branch
        co == GitCheckout(resolved, FALSE, "n")
    IN  IF NoRemotes \/ resolved = None \/ ~RemoteAvailable(probe) \/ ~co.ok
        THEN /\ last' = Raised(call, "RuntimeError:no-remote")
             /\ UNCHANGED <<commits, branches, active_branch, index, worktree,
                            remote_uri, remote_refs, dir_cache>>
        ELSE /\ last' = [call EXCEPT !.pushes = <<[branch |-> resolved, force |-> force]>>]
             /\ branches' = co.branches
             /\ active_branch' = co.active
             /\ index' = co.index
             /\ worktree' = co.worktree
             /\ remote_refs' = [remote_refs EXCEPT ![resolved] = co.branches[resolved]]
             /\ UNCHANGED <<commits, remote_uri, dir_cache>>

\* _submit(path, branch, force): probe is what the reachability probe finds
Submit(path, branch, force, probe) ==
    LET call == [Call("submit") EXCEPT !.path = path, !.branch = branch,
                                       !.force = force, !.probe = probe]
        resolved == IF branch = None THEN GitBranchForPost(path, 0) ELSE branch
    IN  /\ IF NoRemotes
           THEN last' = Raised(call, "RuntimeError:no-remote") /\ UNCHANGED remote_refs
           ELSE IF branch = None /\ path = None
           THEN last' = Raised(call, "ValueError:no-target") /\ UNCHANGED remote_refs
           ELSE IF resolved = None
           THEN last' = Raised(call, "ValueError:no-draft") /\ UNCHANGED remote_refs
           ELSE IF ~RemoteAvailable(probe)
           THEN last' = Raised(call, "RuntimeError:unreachable") /\ UNCHANGED remote_refs
           ELSE /\ last' = [call EXCEPT !.pushes = <<[branch |-> resolved, force |-> force]>>]
                /\ remote_refs' = IF PushTakes(resolved, force)
                                  THEN [remote_refs EXCEPT ![resolved] = branches[resolved]]
                                  ELSE remote_refs
        /\ UNCHANGED <<commits, branches, active_branch, index, worktree,
                       remote_uri, dir_cache>>


\* ------------------------------------------------------------------ update
\* the branches pushed to the remote that its master has not merged
Mergeable == {b \in BranchNames \ {Master} :
                 remote_refs[b] # 0 /\ remote_refs[b] \notin Ancestors(remote_refs[Master])}

\* the tree of master with the documents commit c changed taken from c
MergedTree(m, c) ==
    [d \in Docs |-> IF Tree(c)[d] # Tree(MergeBase(m, c))[d] THEN Tree(c)[d] ELSE Tree(m)[d]]

\* What a fetch can find new on the remote's master: a commit that publishes
\* or removes a document, the merge of a pushed branch, or its squash
RemoteCommits ==
    LET m == remote_refs[Master]
    IN  IF NoRemotes THEN {} ELSE
        UNION {{[parents |-> {m}, tree |-> [Tree(m) EXCEPT ![d] = c]] :
                    c \in {"absent", "1"} \ {Tree(m)[d]}} : d \in Docs}
        \cup {[parents |-> {m, remote_refs[b]}, tree |-> MergedTree(m, remote_refs[b])] : b \in Mergeable}
        \cup {[parents |-> {m}, tree |-> MergedTree(m, remote_refs[b])] : b \in Mergeable}

\* update(): probe is what the reachability probe finds, fetched the commits
\* the fetch brings for the remote's master (none or one), fails the remote
\* command that fails of itself ("none", "fetch", "pull" or "submodule")
Update(probe, fetched, fails) ==
    LET call == [Call("update") EXCEPT !.probe = probe]
        objects == commits \o fetched
        refs == IF fetched = << >> THEN remote_refs
                ELSE [remote_refs EXCEPT ![Master] = Len(objects)]
        current_branch == active_branch
        \* self.git.branches.master.checkout()
        head == Tree(branches[active_branch])
        old == Tree(branches[Master])
        conflict1 == CheckoutConflict(head, old, index, worktree)
        index1 == CheckoutTree(head, old, index)
        worktree1 == CheckoutTree(head, old, worktree)
        \* self.git.remote().pull('master'): master is fast-forwarded
        new == TreeIn(objects, refs[Master])
        conflict2 == CheckoutConflict(old, new, index1, worktree1)
        index2 == CheckoutTree(old, new, index1)
        worktree2 == CheckoutTree(old, new, worktree1)
        pulled == [branches EXCEPT ![Master] = refs[Master]]
        \* current_branch.checkout()
        back == TreeIn(objects, pulled[current_branch])
        conflict3 == CheckoutConflict(new, back, index2, worktree2)
    IN  IF NoRemotes \/ ~RemoteAvailable(probe)
        THEN /\ last' = call
             /\ UNCHANGED <<commits, branches, active_branch, index, worktree,
                            remote_uri, remote_refs, dir_cache>>
        ELSE IF fails = "fetch"
        THEN /\ last' = Raised(call, "fetch:GitCommandError")
             /\ UNCHANGED <<commits, branches, active_branch, index, worktree,
                            remote_uri, remote_refs, dir_cache>>
        ELSE /\ Len(objects) <= MaxCommits
             /\ commits' = objects
             /\ remote_refs' = refs
             /\ UNCHANGED <<remote_uri, dir_cache>>
             /\ IF conflict1
                THEN /\ last' = Raised(call, "checkout:GitCommandError")
                     /\ UNCHANGED <<branches, active_branch, index, worktree>>
                ELSE IF fails = "pull" \/ conflict2
                THEN /\ last' = Raised(call, "pull:GitCommandError")
                     /\ active_branch' = Master
                     /\ index' = index1
                     /\ worktree' = worktree1
                     /\ UNCHANGED branches
                ELSE IF fails = "submodule" \/ conflict3
                THEN /\ last' = Raised(call, IF fails = "submodule"
                                             THEN "submodule:Exception"
                                             ELSE "checkout:GitCommandError")
                     /\ active_branch' = Master
                     /\ index' = index2
                     /\ worktree' = worktree2
                     /\ branches' = pulled
                ELSE /\ last' = call
                     /\ active_branch' = current_branch
                     /\ index' = CheckoutTree(new, back, index2)
                     /\ worktree' = CheckoutTree(new, back, worktree2)
                     /\ branches' = pulled

\* --------------------------------------------------------------- bootstrap
\* the steps of __repo_init, in the order of its try block
BootSteps == <<"init", "submodule", "copy", "add", "commit", "update">>

BootFailures == {BootSteps[i] : i \in 1..Len(BootSteps)}

\* what the path looks like when a step of the try block has failed:
\* git.Repo.init(path, mkdir=True) makes the directory first, so its failure
\* finds the path made or not; every later step works inside the directory
PathMade(fails, made) == fails # "init" \/ made

\* shutil.rmtree(path) in the handler: made is whether the path exists, rm
\* whether the removal works.  The exception it raises (the path does not
\* exist, or an entry cannot be removed) leaves the handler instead of e.
Rmtree(made, rm) == IF ~made THEN "rmtree:OSError"
                    ELSE IF rm THEN "none" ELSE "rmtree:OSError"

\* __repo_init(path): fails is the step of the try block that raises ("none":
\* all of them work).  The result is the state of the path afterwards and the
\* exception that leaves the method.
RepoInit(fails, made, rm) ==
    IF fails = "none" THEN [disk |-> "repo", exc |-> "none"]
    ELSE LET removed == Rmtree(PathMade(fails, made), rm)
         IN  [disk |-> IF ~PathMade(fails, made) THEN "missing"
                       ELSE IF removed = "none" THEN "missing" ELSE "partial",
              exc  |-> IF removed = "none" THEN fails ELSE removed]

\* the repository the bootstrap leaves: one commit with the scaffold files and
\* no document, master checked out, no remote
FreshRepo ==
    /\ commits' = <<[parents |-> {}, tree |-> [d \in Docs |-> "absent"]]>>
    /\ index' = [d \in Docs |-> "absent"]
    /\ worktree' = [d \in Docs |-> "absent"]
    /\ branches' = [b \in BranchNames |-> IF b = Master THEN 1 ELSE 0]
    /\ active_branch' = Master
    /\ remote_uri' = None
    /\ remote_refs' = [b \in BranchNames |-> 0]

\* the path setter: disk is what is at the path ("missing": nothing, "other"
\* and "partial": something that is no repository, "repo": a repository)
SetPath(auto_create, fails, made, rm) ==
    LET call == [Call("open") EXCEPT !.force = auto_create, !.detail = <<fails>>]
        boot == RepoInit(fails, made, rm)
    IN  IF disk = "missing" /\ ~auto_create
        THEN /\ last' = Raised(call, "ValueError")
             /\ UNCHANGED <<commits, branches, active_branch, index, worktree,
                            remote_uri, remote_refs, disk>>
        ELSE IF disk = "missing" /\ boot.exc # "none"
        THEN /\ last' = Raised(call, boot.exc)
             /\ disk' = boot.disk
             /\ UNCHANGED <<commits, branches, active_branch, index, worktree,
                            remote_uri, remote_refs>>
        ELSE IF disk = "missing"
        THEN /\ last' = call
             /\ disk' = "repo"
             /\ FreshRepo
        ELSE IF disk # "repo"
        THEN /\ last' = Raised(call, "AssertionError")
             /\ UNCHANGED <<commits, branches, active_branch, index, worktree,
                            remote_uri, remote_refs, disk>>
        ELSE /\ last' = call
             /\ UNCHANGED <<commits, branches, active_branch, index, worktree,
                            remote_uri, remote_refs, disk>>

\* -------------------------------------------------------------------- Next
\* the object was constructed on a valid repository (the path setter passed)
Opened == disk = "repo"

\* KnowledgeRepository.add(kp, path, update, ...) drives one post at a time
\* through _add_prepare, the save of its files (the revision counter and the
\* other references) and _add_cleanup; adding is the post being added.  The
\* other calls are made between two adds.
StartAdd ==
    /\ Opened
    /\ adding = None
    /\ \E path \in Docs, upd \in BOOLEAN, squash \in BOOLEAN :
         \E response \in Responses(path) :
           /\ AddPrepare(path, upd, None, squash, response)
           /\ adding' = IF last'.exc = "none" THEN path ELSE None
    /\ UNCHANGED <<disk, walk>>

\* an add with the branch named by the caller
StartAddOn ==
    /\ Opened
    /\ adding = None
    /\ \E path \in Docs, upd \in BOOLEAN, branch \in AddBranches, squash \in BOOLEAN :
         \E response \in Responses(branch) :
           /\ AddPrepare(path, upd, branch, squash, response)
           /\ adding' = IF last'.exc = "none" THEN path ELSE None
    /\ UNCHANGED <<disk, walk>>

SaveRevision ==
    /\ Opened
    /\ adding # None
    /\ KpNewRevision(adding)
    /\ UNCHANGED adding
    /\ UNCHANGED <<disk, walk>>

SaveRef ==
    /\ Opened
    /\ adding # None
    /\ \E reference \in {"REVISION", "knowledge.md"}, data \in WriteData :
           KpWriteRef(adding, reference, data)
    /\ UNCHANGED adding
    /\ UNCHANGED <<disk, walk>>

\* _add_cleanup with the rollback commands doing their work
Finish ==
    /\ Opened
    /\ adding # None
    /\ \E outcome \in {"committed", "commit_error", "interrupted"} :
           AddCleanup(adding, outcome, "none")
    /\ adding' = None
    /\ UNCHANGED <<disk, walk>>

\* _add_cleanup with a rollback command failing
FinishBadly ==
    /\ Opened
    /\ adding # None
    /\ \E outcome \in {"commit_error", "interrupted"}, fails \in {"reset", "clean", "checkout"} :
           AddCleanup(adding, outcome, fails)
    /\ adding' = None
    /\ UNCHANGED <<disk, walk>>

StatusOf ==
    /\ Opened
    /\ adding = None
    /\ \E path \in Docs, detailed \in BOOLEAN, branch \in {None} \cup BranchNames :
           KpStatus(path, detailed, branch)
    /\ UNCHANGED adding
    /\ UNCHANGED <<disk, walk>>

\* submit with every form of its arguments
SubmitPost ==
    /\ Opened
    /\ adding = None
    /\ \E path \in {None} \cup Docs, branch \in {None} \cup BranchNames,
          force \in BOOLEAN, probe \in BOOLEAN :
           Submit(path, branch, force, probe)
    /\ UNCHANGED adding
    /\ UNCHANGED <<disk, walk>>

\* submit of a post by its path, to a remote that answers
SubmitDraft ==
    /\ Opened
    /\ adding = None
    /\ \E path \in Docs, force \in BOOLEAN : Submit(path, None, force, TRUE)
    /\ UNCHANGED adding
    /\ UNCHANGED <<disk, walk>>

UpdateRepo ==
    /\ Opened
    /\ adding = None
    /\ \E probe \in BOOLEAN, fetched \in {<< >>} \cup {<<c>> : c \in RemoteCommits} :
           Update(probe, fetched, "none")
    /\ UNCHANGED adding
    /\ UNCHANGED <<disk, walk>>

UpdateBadly ==
    /\ Opened
    /\ adding = None
    /\ \E fetched \in {<< >>} \cup {<<c>> : c \in RemoteCommits},
          fails \in {"fetch", "pull", "submodule"} :
           Update(TRUE, fetched, fails)
    /\ UNCHANGED adding
    /\ UNCHANGED <<disk, walk>>

\* The repository in use: posts added, submitted, published and queried
Next == StartAdd \/ SaveRevision \/ Finish \/ StatusOf \/ SubmitDraft \/ UpdateRepo

Spec == Init /\ [][Next]_vars

\* The add workflow with its failures: every way a commit, a rollback command
\* or a remote command fails, and references written from outside the counter
NextAdd ==
    \/ StartAdd \/ StartAddOn \/ SaveRevision \/ SaveRef \/ Finish \/ FinishBadly
    \/ UpdateRepo \/ UpdateBadly

\* for the add workflow a remote is a remote, whatever its url
InitAdd == Init /\ remote_uri \in {None, SshUri}

SpecAdd == InitAdd /\ [][NextAdd]_vars


\* Drafts added, pushed and merged upstream, no status asked in between
NextSubmit == StartAdd \/ SaveRevision \/ Finish \/ SubmitPost \/ UpdateRepo

SpecSubmit == Init /\ [][NextSubmit]_vars

\* The revision counter at work: posts added and updated, their counter
\* stepped and their files written, the add committed
NextRevision == StartAdd \/ SaveRevision \/ SaveRef \/ Finish

SpecRevision == Init /\ [][NextRevision]_vars

\* the construction of the object on a path that holds no repository yet, and
\* the first adds in the repository it made
OpenRepo ==
    /\ ~Opened
    /\ \E auto_create \in BOOLEAN, fails \in BootFailures \cup {"none"},
          made \in BOOLEAN, rm \in BOOLEAN :
         SetPath(auto_create, fails, made, rm)
    /\ UNCHANGED <<dir_cache, adding, walk>>

\* between two constructions the caller can clear the path
ClearPath ==
    /\ disk \in {"other", "partial"}
    /\ disk' = "missing"
    /\ last' = Call("clear")
    /\ UNCHANGED <<commits, branches, active_branch, index, worktree,
                   remote_uri, remote_refs, dir_cache, adding, walk>>

InitBoot ==
    /\ disk \in {"missing", "other"}
    /\ commits = << >>
    /\ index = [d \in Docs |-> "absent"]
    /\ worktree = [d \in Docs |-> "absent"]
    /\ branches = [b \in BranchNames |-> 0]
    /\ active_branch = Master
    /\ remote_uri = None
    /\ remote_refs = [b \in BranchNames |-> 0]
    /\ dir_cache = [set |-> FALSE, paths |-> {}]
    /\ adding = None
    /\ last = NoLast
    /\ walk = NoWalk

NextBoot == OpenRepo \/ ClearPath \/ StartAdd \/ SaveRevision \/ Finish \/ StatusOf

SpecBoot == InitBoot /\ [][NextBoot]_vars

\* a repository after adds on several branches: every branch but master is
\* missing ("none"), at master's commit ("merged"), or one commit ahead of
\* it, with the post as on master ("same") or changed ("touch")
BranchKinds == {"none", "merged", "same", "touch"}

Touched(t) == [d \in Docs |-> IF t[d] = "absent" THEN "1" ELSE "2"]

\* the repository with master at a root commit of tree t and the other
\* branches of the kinds given; with a remote (uri), pushed is whether the
\* branches were pushed and ahead whether a fetch found the remote's master
\* one commit ahead of the local one
RepoWith(t, kind, uri, pushed, ahead) ==
    LET Own(b) == b # Master /\ kind[b] \in {"same", "touch"}
        own == SelectSeq(BranchOrder, Own)
        At(b) == CHOOSE i \in 1..Len(own) : own[i] = b
        heads == [b \in BranchNames |->
                     IF b = Master \/ kind[b] = "merged" THEN 1
                     ELSE IF kind[b] = "none" THEN 0
                     ELSE 1 + At(b)]
    IN  /\ commits = <<[parents |-> {}, tree |-> t]>> \o
                     [i \in 1..Len(own) |->
                         [parents |-> {1},
                          tree |-> IF kind[own[i]] = "touch" THEN Touched(t) ELSE t]] \o
                     (IF ahead THEN <<[parents |-> {1}, tree |-> Touched(t)]>> ELSE << >>)
        /\ branches = heads
        /\ index = t
        /\ worktree = t
        /\ active_branch = Master
        /\ remote_uri = uri
        /\ remote_refs = [b \in BranchNames |->
                             IF uri = None THEN 0
                             ELSE IF b = Master THEN (IF ahead THEN Len(own) + 2 ELSE 1)
                             ELSE IF pushed THEN heads[b] ELSE 0]
        /\ dir_cache = [set |-> FALSE, paths |-> {}]
        /\ adding = None
        /\ last = NoLast
        /\ disk = "repo"
        /\ walk = NoWalk

InitResolve ==
    \E t \in InitTrees, kind \in [BranchNames \ {Master} -> BranchKinds] :
        RepoWith(t, kind, None, FALSE, FALSE)

\* the indexes an interactive caller can answer the prompt of lines 180-189
\* with; without a prompt the response is 0
Choices(path, interactive) ==
    IF interactive /\ ~InSeq(path, GitLocalBranches) /\ Len(Matching(path)) > 1
    THEN 0..(Len(Matching(path)) - 1)
    ELSE {0}

\* a call of git_branch_for_post: detail is the name of the branch returned
BranchForPost ==
    /\ Opened
    /\ adding = None
    /\ \E path \in Docs, interactive \in BOOLEAN :
         \E response \in Choices(path, interactive) :
           LET found == GitBranchForPost(path, response)
           IN  last' = [Call("branch_for_post") EXCEPT
                           !.path = path, !.force = interactive,
                           !.ret = IF found = None THEN "None" ELSE "branch",
                           !.detail = found]
    /\ UNCHANGED <<commits, branches, active_branch, index, worktree,
                   remote_uri, remote_refs, dir_cache, adding, disk, walk>>

NextResolve == BranchForPost \/ StatusOf

SpecResolve == InitResolve /\ [][NextResolve]_vars

\* the adds made in a repository with branches and, with a remote, pushed
\* branches and a fetched master
InitSquash ==
    \E t \in InitTrees, kind \in [BranchNames \ {Master} -> BranchKinds],
       uri \in {None, SshUri}, pushed \in BOOLEAN, ahead \in BOOLEAN :
        /\ uri = None => ~pushed /\ ~ahead
        /\ RepoWith(t, kind, uri, pushed, ahead)

NextSquash == StartAdd \/ StartAddOn \/ SaveRevision \/ Finish

SpecSquash == InitSquash /\ [][NextSquash]_vars

\* a read of the reachability of the remote, probe being whether a connect to
\* port 22 of its host would succeed
ProbeRemote ==
    /\ Opened
    /\ adding = None
    /\ \E probe \in BOOLEAN :
         LET r == ReadRemoteAvailable(probe)
         IN  last' = [Call("remote_available") EXCEPT
                         !.probe = probe, !.exc = r.exc, !.ret = r.ret]
    /\ UNCHANGED <<commits, branches, active_branch, index, worktree,
                   remote_uri, remote_refs, dir_cache, adding, disk, walk>>

NextRemote == ProbeRemote \/ StartAdd \/ SaveRevision \/ Finish \/ UpdateRepo

SpecRemote == Init /\ [][NextRemote]_vars

\* the paths the trees listed are made of: a post, entries in it one and two
\* levels down, and entries beside it
WalkPaths ==
    {<<"2020">>, DocA, DocA \o <<"b.kp">>, DocA \o <<"src">>,
     DocA \o <<"src", "b.kp">>, <<"b.kp">>, <<"src">>, <<"src", "b.kp">>}

\* an entry is a tree when the tree holds entries below it
IsTree(entries, p) == Children(entries, p) # {}

\* a tree holds the directories of its entries; a submodule holds none
WalkTrees ==
    {w \in [entries : SUBSET WalkPaths, submodules : SUBSET WalkPaths,
            prefix : {None}, out : {{}}, exc : {"none"}] :
        /\ \A e \in w.entries : Len(e) > 1 => Dirname(e) \in w.entries
        /\ w.submodules \subseteq w.entries
        /\ \A e \in w.submodules : ~IsTree(w.entries, e)}

InitWalk ==
    /\ Init
    /\ remote_uri = None
    /\ \A d \in Docs : worktree[d] = "absent"

\* the commit that git_dir is given: one whose tree holds the entries and the
\* submodules of one of the trees above
PickTree ==
    /\ Opened
    /\ walk = NoWalk
    /\ walk' \in WalkTrees \ {NoWalk}
    /\ last' = Call("commit")
    /\ UNCHANGED <<commits, branches, active_branch, index, worktree,
                   remote_uri, remote_refs, dir_cache, adding, disk>>

\* git_dir(prefix, commit) on the commit with the tree of walk: tree[prefix]
\* raises KeyError for a path the tree does not hold, and an entry that is no
\* tree has no traverse
ListTree ==
    /\ Opened
    /\ walk # NoWalk
    /\ \E prefix \in {None} \cup (WalkPaths \ walk.submodules) :
         /\ walk' = [walk EXCEPT
                        !.prefix = prefix,
                        !.exc = IF prefix = None THEN "none"
                                ELSE IF prefix \notin walk.entries THEN "KeyError"
                                ELSE IF ~IsTree(walk.entries, prefix) THEN "AttributeError"
                                ELSE "none",
                        !.out = IF prefix = None \/ IsTree(walk.entries, prefix)
                                THEN GitDirOf(walk.entries, walk.submodules, prefix)
                                ELSE {}]
         /\ last' = [Call("git_dir") EXCEPT !.path = prefix]
    /\ UNCHANGED <<commits, branches, active_branch, index, worktree,
                   remote_uri, remote_refs, dir_cache, adding, disk>>

NextWalk == PickTree \/ ListTree

SpecWalk == InitWalk /\ [][NextWalk]_vars

\* the lists of statuses a listing is asked for
StatusLists ==
    {s \in UNION {[1..n -> PostStatus] : n \in 1..2} :
        \A i \in 1..Len(s), j \in 1..Len(s) : i # j => s[i] # s[j]}

\* the prefixes a listing is asked for
CallerPrefixes == {None, <<"2020">>, <<"2021">>}

\* a listing of the posts under a prefix
ListPosts ==
    /\ Opened
    /\ adding = None
    /\ \E prefix \in CallerPrefixes, statuses \in StatusLists :
         \E lastPost \in IF LocalPosts = {} THEN {None} ELSE {v[2] : v \in LocalPosts} :
           ListDir(prefix, statuses, lastPost)
    /\ UNCHANGED <<adding, disk, walk>>

NextDir == ListPosts \/ StartAdd \/ SaveRevision \/ Finish \/ SubmitDraft \/ UpdateRepo

SpecDir == Init /\ [][NextDir]_vars

\* ================================================================== claims
\* the branch a status call works with: the one it is given, else the one
\* the resolver finds
StatusBranch == IF last.branch = None THEN GitBranchForPost(last.path, 0) ELSE last.branch

\* a status call was made last, for a branch that exists when one was named
StatusCalled == last.op = "status" /\ last.branch \in {None} \cup Branches

\* C1: a post that is in the tree of master has status PUBLISHED, whatever
\* the local branches, the branch checked out and the branch argument are
C1_PublishedIsPublished ==
    (StatusCalled /\ last.path \in Dir)
        => (last.exc = "none" /\ last.ret = "PUBLISHED")

\* C2: for a post that no unmerged branch touches, that names no local branch
\* and that master does not hold, the resolver finds no branch and status_of
\* leaves with an exception instead of returning a value
C2_NotFoundRaises ==
    (/\ StatusCalled
     /\ last.branch = None
     /\ last.path \notin Branches
     /\ last.path \notin Dir
     /\ \A b \in Branches : NoMerged(b) => last.path \notin GitLocalPosts(b))
        => (GitBranchForPost(last.path, 0) = None /\ last.exc # "none")

\* C3: a post that master does not hold and whose branch is not master is
\* SUBMITTED exactly when the remote has a ref of the branch's name, and DRAFT
\* otherwise, a repository without a remote included
C3_DraftOrSubmitted ==
    (/\ StatusCalled
     /\ last.path \notin Dir
     /\ StatusBranch \notin {None, Master})
        => /\ last.exc = "none"
           /\ last.ret = IF remote_refs[StatusBranch] # 0 THEN "SUBMITTED" ELSE "DRAFT"

\* C4: the annotation of a SUBMITTED post names the commits behind, then the
\* commits ahead, a count of zero left out, and names the branch only when
\* the branch is not named like the post
C4_Annotation ==
    (StatusCalled /\ last.ret = "SUBMITTED" /\ last.detail # None)
        => last.detail =
              Behind(Cardinality(IterCommits(branches[StatusBranch], remote_refs[StatusBranch])))
              \o Ahead(Cardinality(IterCommits(remote_refs[StatusBranch], branches[StatusBranch])))
              \o (IF StatusBranch # last.path THEN OnBranch(StatusBranch) ELSE << >>)

\* C5: prepare with update=False for a post whose directory exists on disk
\* fails with the already-exists error and leaves the local branches, the
\* commits they point to and the branch checked out as they were
C5_ExistingTargetFails ==
    [][\A path \in Docs, branch \in {None} \cup AddBranches,
          squash \in BOOLEAN, response \in {"y", "n"} :
           (/\ last'.op = "prepare"
            /\ worktree[path] # "absent"
            /\ AddPrepare(path, FALSE, branch, squash, response))
               => (last'.exc = "AssertionError" /\ UNCHANGED <<branches, active_branch>>)]_vars

\* the ways the commit step of _add_cleanup fails, and the rollback command
\* that fails of itself
CommitOutcomes == {"commit_error", "interrupted"}

RollbackFailures == {"none", "reset", "clean", "checkout"}

\* C6 as claimed: when finalize fails during the commit, on exit the index is
\* that of HEAD, the post's path is in its last committed state with nothing
\* untracked left, the branch has no new commit and the exception is the
\* commit's
C6_FailureRollsBack ==
    [][\A path \in Docs, outcome \in CommitOutcomes, fails \in RollbackFailures :
           (/\ last'.op = "finalize"
            /\ worktree[path] # "absent"
            /\ AddCleanup(path, outcome, fails))
               => LET head == Tree(branches[active_branch])
                  IN  /\ index' = head
                      /\ worktree'[path] = head[path]
                      /\ commits' = commits
                      /\ branches' = branches
                      /\ last'.exc = CommitFailure(outcome)]_vars

\* C6 as amended: when finalize fails during the commit the branch has no new
\* commit; when the index reset works the index is that of HEAD and the
\* exception is the commit's; when the clean and the checkout of the path work
\* too (the checkout may fail for want of a tracked file) the path is in its
\* last committed state with nothing untracked left; when the index reset
\* fails, the index keeps the staged post and the working tree is untouched
C6_RollbackOutcome ==
    [][\A path \in Docs, outcome \in CommitOutcomes, fails \in RollbackFailures :
           (/\ last'.op = "finalize"
            /\ worktree[path] # "absent"
            /\ AddCleanup(path, outcome, fails))
               => LET head == Tree(branches[active_branch])
                  IN  /\ commits' = commits
                      /\ branches' = branches
                      /\ fails # "reset" =>
                            (index' = head /\ last'.exc = CommitFailure(outcome))
                      /\ fails = "none" => worktree'[path] = head[path]
                      /\ fails = "reset" =>
                            /\ index' = [index EXCEPT ![path] = worktree[path]]
                            /\ worktree' = worktree]_vars

\* a new post was staged, its commit was interrupted, and the rollback
\* removed it from the index and from the working tree
C6_Witness ==
    /\ last.op = "finalize"
    /\ last.exc = "KeyboardInterrupt"
    /\ \E d \in Docs : index[d] = "absent" /\ worktree[d] = "absent"

\* C7: whichever rollback command fails (the index reset, the clean or the
\* checkout of the path), the exception that leaves finalize is the one the
\* commit raised
C7_RollbackIsBestEffort ==
    [][\A path \in Docs, outcome \in CommitOutcomes, fails \in RollbackFailures \ {"none"} :
           (/\ last'.op = "finalize"
            /\ worktree[path] # "absent"
            /\ AddCleanup(path, outcome, fails))
               => last'.exc = CommitFailure(outcome)]_vars

\* C8: submit checks, in this order, that a remote exists, that a path or a
\* branch is given, that a branch is found for the path and that the remote
\* answers the probe; it pushes nothing when one of these fails and otherwise
\* pushes the branch once, with the force flag it was given
C8_SubmitPreconditions ==
    last.op = "submit"
        => LET resolved == IF last.branch = None THEN GitBranchForPost(last.path, 0)
                           ELSE last.branch
               given == ~(last.branch = None /\ last.path = None)
           IN  /\ NoRemotes => last.exc = "RuntimeError:no-remote"
               /\ (~NoRemotes /\ ~given) => last.exc = "ValueError:no-target"
               /\ (~NoRemotes /\ given /\ resolved = None)
                     => last.exc = "ValueError:no-draft"
               /\ (~NoRemotes /\ resolved # None /\ ~RemoteAvailable(last.probe))
                     => last.exc = "RuntimeError:unreachable"
               /\ last.exc # "none" => last.pushes = << >>
               /\ (~NoRemotes /\ resolved # None /\ RemoteAvailable(last.probe))
                     => /\ last.exc = "none"
                        /\ last.pushes = <<[branch |-> resolved, force |-> last.force]>>

\* a forced push of the branch of a post was made, and the remote took it
C8_Witness ==
    /\ last.op = "submit"
    /\ last.branch = None
    /\ Len(last.pushes) = 1
    /\ last.pushes[1].force
    /\ last.pushes[1].branch \in Docs
    /\ remote_refs[last.pushes[1].branch] = branches[last.pushes[1].branch]

\* C9: whatever its outcome, submit leaves the commits, the local branches,
\* the branch checked out, the index and the working tree as they were
C9_SubmitKeepsLocalHistory ==
    [][last'.op = "submit"
          => UNCHANGED <<commits, branches, active_branch, index, worktree>>]_vars

\* a submit pushed a branch while a draft branch with a commit of its own
\* was checked out
C9_Witness ==
    /\ last.op = "submit"
    /\ last.exc = "none"
    /\ active_branch # Master
    /\ NoMerged(active_branch)

\* the revision of d can be read in this state
RevisionReadable(d) == ~RevisionUnreadable(d)

\* C10 as claimed: whatever the operation, the revision read for a document
\* is never smaller than the one read before, and it is 0 without a REVISION
\* file
C10_RevisionMonotonic ==
    [][\A d \in Docs :
           /\ NoRevisionFile(d) => KpGetRevision(d) = 0
           /\ (RevisionReadable(d) /\ RevisionReadable(d)')
                 => KpGetRevision(d)' >= KpGetRevision(d)]_vars

\* C10 as amended: the revision read is 0 without a REVISION file, and it is
\* never made smaller by next_revision nor by a finalize that commits (a
\* rollback, a checkout of another branch, an update and write_ref can
\* lower it)
C10_RevisionKept ==
    [][\A d \in Docs :
           /\ NoRevisionFile(d) => KpGetRevision(d) = 0
           /\ (/\ \/ last'.op = "next_revision"
                  \/ (last'.op = "finalize" /\ last'.exc = "none")
               /\ RevisionReadable(d) /\ RevisionReadable(d)')
                 => KpGetRevision(d)' >= KpGetRevision(d)]_vars

\* next_revision has taken the counter of a post to 2
C10_Witness ==
    /\ last.op = "next_revision"
    /\ last.exc = "none"
    /\ \E d \in Docs : RevisionReadable(d) /\ KpGetRevision(d) = 2

\* C11: a call of next_revision that can read the counter (no file reads as
\* 0) leaves it exactly 1 higher, so that n calls in a row from no file
\* leave n, and it leaves the directory of the post in place, made if it
\* was missing
C11_NextRevisionAddsOne ==
    [][\A d \in Docs :
           (last'.op = "next_revision" /\ adding = d /\ RevisionReadable(d))
               => /\ last'.exc = "none"
                  /\ worktree'[d] \notin {"absent", "norev"}
                  /\ RevisionReadable(d)'
                  /\ KpGetRevision(d)' = KpGetRevision(d) + 1
                  /\ NoRevisionFile(d) => KpGetRevision(d)' = 1]_vars

\* next_revision has made the directory and the counter of a post that no
\* commit and no index holds yet
C11_Witness ==
    /\ last.op = "next_revision"
    /\ last.exc = "none"
    /\ \E d \in Docs :
          /\ adding = d
          /\ worktree[d] = "1"
          /\ index[d] = "absent"
          /\ Tree(branches[active_branch])[d] = "absent"

\* a bootstrap was run and failed: the path was missing, auto_create was set
\* and a step of the try block raised
BootstrapFailed ==
    /\ last.op = "open" /\ last.force
    /\ last.detail # <<"none">>
    /\ last.exc \notin {"none", "AssertionError"}

\* C12: after a bootstrap that failed at any of its steps the path does not
\* exist and the caller has the failure of that step
C12_BootstrapAtomic ==
    BootstrapFailed => /\ disk = "missing"
                       /\ <<last.exc>> = last.detail

\* C13: whenever the path of a document is the name of an existing local
\* branch, merged into master or not, the resolver returns that branch
C13_PathNamesBranch ==
    \A path \in Docs :
        BranchExists(path) => \A response \in {0, 1} : GitBranchForPost(path, response) = path

\* the unmerged branches whose diff against master holds the post
Candidates(path) == {b \in BranchNames : NoMerged(b) /\ path \in GitLocalPosts(b)}

\* the place of a branch in the listing
ListingIndex(b) == CHOOSE i \in 1..Len(BranchOrder) : BranchOrder[i] = b

\* the resolution of path is ambiguous: two or more unmerged branches touch
\* the post and no branch is named like it
Ambiguous(path) == ~BranchExists(path) /\ Cardinality(Candidates(path)) >= 2

\* C14: a non-interactive resolution of an ambiguous path returns the first
\* of the branches touching the post in the order of the listing, never None;
\* a second such call with the branches unchanged returns the same branch
C14_AmbiguityFirstListed ==
    [][(last'.op = "branch_for_post" /\ ~last'.force /\ Ambiguous(last'.path))
          => /\ last'.exc = "none" /\ last'.ret = "branch"
             /\ last'.detail \in Candidates(last'.path)
             /\ \A b \in Candidates(last'.path) :
                    ListingIndex(last'.detail) <= ListingIndex(b)
             /\ (last.op = "branch_for_post" /\ ~last.force /\ last.path = last'.path
                   /\ branches' = branches /\ commits' = commits)
                    => last'.detail = last.detail]_vars

C14_Witness ==
    /\ last.op = "branch_for_post" /\ ~last.force /\ Ambiguous(last.path)
    /\ Candidates(last.path) = {Feature, Wip}
    /\ last.detail = Feature

\* a prepare with squash has recreated the branch it works on
Squashed == last.op = "prepare" /\ last.force

SquashBase == IF NoRemotes THEN branches[Master] ELSE remote_refs[Master]

C16_ProbeTotal ==
    last.op = "remote_available"
        => /\ last.exc = "none"
           /\ last.ret = IF NoRemotes \/ last.probe THEN "True" ELSE "False"

\* the status a first call in the session (no _dir_cache yet) gives in the
\* repository as it is now
FreshStatus(path, branch) == KpStatusResult(path, FALSE, branch, Dir)

\* C17: a status call returns what the repository as it is now determines,
\* whatever calls were made before it, and it changes no branch, index,
\* working tree or active branch
C17_StatusIsPure ==
    [][last'.op = "status"
          => /\ last'.ret = FreshStatus(last'.path, last'.branch).ret
             /\ last'.exc = FreshStatus(last'.path, last'.branch).exc
             /\ UNCHANGED <<commits, branches, active_branch, index, worktree>>]_vars

\* p lies inside a document directory: a directory above it ends in '.kp'
InsideDocument(p) == \E k \in 1..(Len(p) - 1) : EndsWithKp(SubSeq(p, 1, k))

\* p lies below the prefix listed (every path does when there is none)
Below(prefix, p) == Len(p) > Len(prefix) /\ SubSeq(p, 1, Len(prefix)) = prefix

\* the listing of walk was made, of the whole tree or of a directory of it
\* that is no document and lies in none
Listed ==
    /\ last.op = "git_dir" /\ walk.exc = "none"
    /\ ~EndsWithKp(walk.prefix) /\ ~InsideDocument(walk.prefix)

\* C18: git_dir yields exactly the entries (below the prefix) whose path ends
\* in '.kp', that lie in no other document directory at any depth and that
\* are no submodule; so nothing below a yielded document is yielded
C18_ListsOutermostDocuments ==
    Listed =>
        /\ walk.out = {e \in walk.entries :
                          /\ Below(walk.prefix, e) /\ EndsWithKp(e)
                          /\ ~InsideDocument(e) /\ e \notin walk.submodules}
        /\ \A e \in walk.out, f \in walk.out : ~Below(e, f)

\* a tree with a document that holds '.kp' entries one and two levels down,
\* listed whole
C18_Witness ==
    /\ Listed /\ walk.prefix = None
    /\ {DocA \o <<"b.kp">>, DocA \o <<"src", "b.kp">>, <<"b.kp">>} \subseteq walk.entries
    /\ <<"b.kp">> \in walk.submodules
    /\ walk.out = {DocA}

\* C19: when update() ends, however it ends, the branch checked out is the
\* one that was checked out before it; without a remote, or with a remote
\* that the probe finds unreachable, it fetches, pulls and checks out nothing
C19_UpdateRestoresBranch ==
    [][last'.op = "update"
          => /\ active_branch' = active_branch
             /\ (NoRemotes \/ ~RemoteAvailable(last'.probe))
                    => UNCHANGED <<commits, branches, index, worktree, remote_refs>>]_vars

\* the statuses asked for by the listing made last
Asked(status) == \E j \in 1..Len(last.detail) : last.detail[j] = status

\* C20: a listing yields only posts below the prefix it was called with, for
\* every status asked for, each once and in sorted order; the published posts
\* are listed under that prefix wherever PUBLISHED stands in the list
C20_ListingKeepsPrefix ==
    (last.op = "dir" /\ last.exc = "none")
        => /\ \A k \in 1..Len(last.posts) : Below(last.path, last.posts[k])
           /\ \A k \in 1..Len(last.posts), l \in 1..Len(last.posts) :
                  k # l => last.posts[k] # last.posts[l]
           /\ last.posts = Sorted({last.posts[k] : k \in 1..Len(last.posts)})
           /\ Asked("PUBLISHED") => last.prefix = last.path

=============================================================================
